---- MODULE Spec2Model ----
(***************************************************************************)
(* IntuneBackupRestore: the token provider (src/utils/auth.py), the export *)
(* command and its two exporters (src/export_runner.py,                    *)
(* src/modules/python/export_*.py), the diff generator                     *)
(* (src/utils/diff_generator.py) and the configuration                     *)
(* (src/utils/config.py), as state machines.                               *)
(*                                                                         *)
(* Five specifications share the variables; each leaves the variables of   *)
(* the other programs at their initial values:                             *)
(*   SpecAuth    one GraphAuthenticator, get_token called repeatedly       *)
(*   SpecExport  one run of the export command, or of                      *)
(*               ApplicationExporter.export_all called directly            *)
(*   SpecDiff    the changelog command run repeatedly over a changing      *)
(*               export tree                                               *)
(*   SpecDiffFn  the snapshot comparison and _compare_files as functions   *)
(*               of their inputs                                           *)
(*   SpecConfig  Config() constructed in an environment, its toggles read  *)
(***************************************************************************)
EXTENDS Integers, Sequences, FiniteSets, Bags, TLC

VARIABLES
    \* ---- GraphAuthenticator
    tokenCache,   \* self._token_cache: cache key -> result of the identity provider
    nCalls,       \* number of get_token calls made by the SpecAuth driver
    issued,       \* history: the (scopes, token) of every successful get_token
    lastCall,     \* history: the last get_token call and its outcome
    \* ---- the export command / an exporter's export_all
    entry,        \* --module of export_runner.py, or "ApplicationExporter"
    env,          \* os.environ: variable -> value, or Unset
    pc,           \* position of the run
    items,        \* the objects the list call returned
    idx,          \* index of the next listed object of the for loop
    exported,     \* the list export_all builds and returns
    exports,      \* the exports/ tree: <<directory, file name>> -> content
    nWrites,      \* history: manifest files written in this run
    nSkips,       \* history: "Failed to export ..." errors logged in this run
    aborted,      \* history: why the run raised out of its normal course
    authFailed,   \* history: a token acquisition failed in this run
    exitCode,     \* exit code of the command, NoExit while it runs
    lastItem,     \* history: what the last loop iteration met and did
    \* ---- the changelog command
    changeLogs,   \* the change_logs/ directory: file name -> report
    now,          \* the clock, in ticks
    runs,         \* history: changelog runs so far
    nChanges,     \* history: changes made to the export tree
    lastTree,     \* history: the export tree as the last changelog run saw it
    sameAsPrevious, \* history: the last run saw the tree the run before saw
    runLog,       \* history: per run, the file name and the report it saved
    \* ---- the comparison as a function
    fnCur,        \* the current snapshot given to the comparison
    fnPrev,       \* the previous snapshot given to the comparison
    fnOut,        \* the added, removed and modified lists it produced
    fnCmp,        \* the last _compare_files call: its path and result
    \* ---- the configuration
    config        \* Config(): whether built, its error, the toggles read

authVars == <<tokenCache, nCalls, issued, lastCall>>

exportVars == <<entry, env, pc, items, idx, exported, exports, nWrites, nSkips,
                aborted, authFailed, exitCode, lastItem>>

diffVars == <<changeLogs, now, runs, nChanges, lastTree, sameAsPrevious, runLog>>

fnVars == <<fnCur, fnPrev, fnOut, fnCmp>>

vars == <<tokenCache, nCalls, issued, lastCall,
          entry, env, pc, items, idx, exported, exports, nWrites, nSkips,
          aborted, authFailed, exitCode, lastItem,
          changeLogs, now, runs, nChanges, lastTree, sameAsPrevious, runLog,
          fnCur, fnPrev, fnOut, fnCmp, config>>

(***************************************************************************)
(* Bounds                                                                  *)
(***************************************************************************)
MaxCalls == 3     \* get_token calls of one SpecAuth behaviour
MaxItems == 2     \* longest list a list call returns
MaxRuns == 2      \* changelog runs of one SpecDiff behaviour
MaxChanges == 1   \* changes to the export tree in one SpecDiff behaviour
MaxTime == 2      \* last tick of the clock at which a changelog run starts
TicksPerSecond == 2  \* ticks of the clock in one second of a file name

(***************************************************************************)
(* JSON values. Every value is a record of the same shape, so that any two *)
(* can be compared: t is the type, s the text of a scalar, l the elements  *)
(* of a list (or the one mapping of an object).                            *)
(***************************************************************************)
JNull == [t |-> "null", s |-> "", l |-> <<>>]
JStr(x) == [t |-> "str", s |-> x, l |-> <<>>]
JBool(x) == [t |-> "bool", s |-> x, l |-> <<>>]
JList(q) == [t |-> "list", s |-> "", l |-> q]
JDict(f) == [t |-> "dict", s |-> "", l |-> <<f>>]

EmptyDoc == [k \in {} |-> JNull]

\* d[k] = v on a dict
Put(d, k, v) == [x \in DOMAIN d \cup {k} |-> IF x = k THEN v ELSE d[x]]

\* d.get(k, default)
Get(d, k, default) == IF k \in DOMAIN d THEN d[k] ELSE default

\* The content of a file: a JSON document, an image, or text json.load rejects.
JsonFile(doc) == [kind |-> "json", doc |-> doc]
PngFile == [kind |-> "png", doc |-> EmptyDoc]
GarbageFile == [kind |-> "garbage", doc |-> EmptyDoc]

\* Python truthiness of a JSON value
TruthyJ(v) ==
    CASE v.t = "null" -> FALSE
      [] v.t = "str" -> v.s # ""
      [] v.t = "bool" -> v.s = "true"
      [] v.t = "list" -> v.l # <<>>
      [] v.t = "dict" -> DOMAIN v.l[1] # {}
      [] OTHER -> TRUE

(***************************************************************************)
(* Token provider: src/utils/auth.py                                       *)
(***************************************************************************)
DefaultScope == "https://graph.microsoft.com/.default"

\* The scope strings of the model, in Python's string order (sorted() compares
\* code points: "a" < "a|b" < "b" < "https...").
ScopeOrder == <<"a", "a|b", "b", DefaultScope>>

ScopeRank(s) == CHOOSE i \in 1..Len(ScopeOrder) : ScopeOrder[i] = s

\* The scope strings a caller passes explicitly.
ScopeNames == {"a", "a|b", "b"}

\* scopes=None
None == <<"None">>

\* The scopes arguments of the model: none, the empty list, single scopes, a
\* pair in both orders, a repeated scope, and "a|b", whose cache key is that
\* of the pair.
ScopeLists ==
    {None, <<>>, <<"a">>, <<"b">>, <<"a|b">>, <<"a", "b">>, <<"b", "a">>, <<"a", "a">>}

Tokens == {"T1", "T2"}

\* What msal's acquire_token_for_client can return: a dict with an access
\* token, or an error dict with or without an error_description.
IdPResults ==
    {[access_token |-> t, token_type |-> "Bearer"] : t \in Tokens}
    \cup {[error |-> "invalid_client", error_description |-> "bad creds"],
          [error |-> "invalid_client"]}

\* sorted(scopes): insertion of each element into the sorted prefix.
RECURSIVE InsertSorted(_, _)
InsertSorted(x, q) ==
    IF q = <<>> THEN <<x>>
    ELSE IF ScopeRank(x) <= ScopeRank(Head(q)) THEN <<x>> \o q
    ELSE <<Head(q)>> \o InsertSorted(x, Tail(q))

RECURSIVE sorted(_)
sorted(q) == IF q = <<>> THEN <<>> ELSE InsertSorted(Head(q), sorted(Tail(q)))

\* sep.join(q)
RECURSIVE join(_, _)
join(sep, q) ==
    IF q = <<>> THEN ""
    ELSE IF Len(q) = 1 THEN q[1]
    ELSE q[1] \o sep \o join(sep, Tail(q))

\* auth.py:25-26
EffectiveScopes(scopes) == IF scopes = None THEN <<DefaultScope>> ELSE scopes

CacheKey_Unsorted(scopes) == join("|", scopes)

\* auth.py:28  cache_key = "|".join(sorted(scopes))
CacheKey(scopes) == join("|", sorted(scopes))

\* Python truthiness of a dict.
Truthy(d) == DOMAIN d # {}

ErrorMessage_NoDescription(result) == "Failed to acquire token: Unknown error"

\* auth.py:43  the message of the raised exception
ErrorMessage(result) ==
    "Failed to acquire token: " \o
        (IF "error_description" \in DOMAIN result
         THEN result.error_description ELSE "Unknown error")

NoResult == [none |-> "none"]

get_token_NoCache(cache, scopes, idp) ==
    LET sc == EffectiveScopes(scopes)
        key == CacheKey(sc)
    IN  IF "access_token" \in DOMAIN idp
        THEN [raised |-> FALSE, token |-> idp.access_token, message |-> "",
              cache |-> [k \in DOMAIN cache \cup {key} |->
                            IF k = key THEN idp ELSE cache[k]],
              contacted |-> TRUE, result |-> idp]
        ELSE [raised |-> TRUE, token |-> "", message |-> ErrorMessage(idp),
              cache |-> cache, contacted |-> TRUE, result |-> idp]

\* auth.py:24-45  get_token(scopes), with idp the result the identity
\* provider gives if it is asked. The outcome: raised or the token returned,
\* the cache afterwards, and whether the identity provider was contacted.
get_token(cache, scopes, idp) ==
    LET sc == EffectiveScopes(scopes)
        key == CacheKey(sc)
    IN  IF key \in DOMAIN cache /\ Truthy(cache[key])
        THEN [raised |-> FALSE, token |-> cache[key].access_token, message |-> "",
              cache |-> cache, contacted |-> FALSE, result |-> NoResult]
        ELSE IF "access_token" \in DOMAIN idp
        THEN [raised |-> FALSE, token |-> idp.access_token, message |-> "",
              cache |-> [k \in DOMAIN cache \cup {key} |->
                            IF k = key THEN idp ELSE cache[k]],
              contacted |-> TRUE, result |-> idp]
        ELSE [raised |-> TRUE, token |-> "", message |-> ErrorMessage(idp),
              cache |-> cache, contacted |-> TRUE, result |-> idp]

EmptyCache == [k \in {} |-> NoResult]

NoCall == [scopes |-> <<>>, raised |-> FALSE, token |-> "", message |-> "",
           contacted |-> FALSE, result |-> NoResult]

\* auth.py:8-12  a fresh GraphAuthenticator
AuthFresh ==
    /\ tokenCache = EmptyCache
    /\ nCalls = 0
    /\ issued = {}
    /\ lastCall = NoCall

\* One call auth.get_token(scopes) by some caller.
CallGetToken ==
    /\ nCalls < MaxCalls
    /\ \E scopes \in ScopeLists, idp \in IdPResults :
          LET r == get_token(tokenCache, scopes, idp)
          IN  /\ tokenCache' = r.cache
              /\ lastCall' = [scopes |-> EffectiveScopes(scopes), raised |-> r.raised,
                              token |-> r.token, message |-> r.message,
                              contacted |-> r.contacted, result |-> r.result]
              /\ issued' = IF r.raised THEN issued
                           ELSE issued \cup {[scopes |-> EffectiveScopes(scopes),
                                              token |-> r.token]}
    /\ nCalls' = nCalls + 1
    /\ UNCHANGED <<exportVars, diffVars, fnVars, config>>

(***************************************************************************)
(* Configuration: src/utils/config.py                                      *)
(***************************************************************************)
\* os.getenv(var) of a variable that is not set
Unset == "<unset>"

RequiredVars == <<"AZURE_TENANT_ID", "AZURE_CLIENT_ID", "AZURE_CLIENT_SECRET">>

\* os.getenv(var, default)
getenv(e, var, default) == IF e[var] = Unset THEN default ELSE e[var]

lower_Identity(x) == x

\* str.lower() on the values the model gives the boolean variables
lower(x) ==
    CASE x \in {"true", "TRUE", "True"} -> "true"
      [] x \in {"false", "False"} -> "false"
      [] x = "Yes" -> "yes"
      [] OTHER -> x

validate_required_vars_UnsetOnly(e) ==
    SelectSeq(RequiredVars, LAMBDA v : e[v] = Unset)

\* config.py:35-39  the missing variables, in the order of `required`;
\* `not os.getenv(var)` is true of an unset and of an empty variable
validate_required_vars(e) ==
    SelectSeq(RequiredVars, LAMBDA v : e[v] = Unset \/ e[v] = "")

\* config.py:28-33  export_config['include_assignments']
include_assignments(e) ==
    lower(getenv(e, "EXPORT_INCLUDE_ASSIGNMENTS", "true")) = "true"

\* config.py:31  export_config['pretty_print']
pretty_print(e) == lower(getenv(e, "EXPORT_PRETTY_PRINT", "true")) = "true"

\* config.py:24  graph_config['beta_enabled']
beta_enabled(e) == lower(getenv(e, "GRAPH_API_BETA_ENABLED", "false")) = "true"

\* config.py:39  the text of the ValueError
MissingMessage(missing) ==
    "Missing required environment variables: " \o join(", ", missing)

\* config.py:8-10  Config(): raises when validate_required_vars finds a
\* required variable missing
Config(e) ==
    LET missing == validate_required_vars(e)
    IN  IF missing # <<>>
        THEN [raised |-> TRUE, message |-> MissingMessage(missing)]
        ELSE [raised |-> FALSE, message |-> ""]

(***************************************************************************)
(* Names and file names                                                    *)
(***************************************************************************)
\* The display names of the model, spelled as characters.
NameSpellings == {<<"A">>, <<"A", "/", "B">>}

Str(q) == join("", q)

Chars(x) == CHOOSE q \in NameSpellings : Str(q) = x

DisplayNames == {Str(q) : q \in NameSpellings}

\* str.replace('/', '_')
ReplaceSlash(q) == [i \in DOMAIN q |-> IF q[i] = "/" THEN "_" ELSE q[i]]

\* \w, \s and the hyphen among the characters of the model
KeptChars == {"A", "B", "_", " ", "-"}

\* export_applications.py:192-195  re.sub(r'[^\w\s-]', '_', name)
_sanitize_filename(name) ==
    Str([i \in DOMAIN Chars(name) |->
            IF Chars(name)[i] \in KeptChars THEN Chars(name)[i] ELSE "_"])

\* str() of a JSON value inside an f-string
Format(v) == IF v.t = "null" THEN "None" ELSE v.s

PolicyFileName_NameOnly(policy) ==
    Str(ReplaceSlash(Chars(policy["displayName"].s))) \o ".json"

\* export_compliance_policies.py:75
PolicyFileName(policy) ==
    Str(ReplaceSlash(Chars(policy["displayName"].s))) \o "_" \o Format(policy["id"])
        \o ".json"

(***************************************************************************)
(* The remote API, as the sets of responses a GET can give                 *)
(***************************************************************************)
Ids == {"p1", "p2"}

\* The objects a list call can return: complete summaries, and summaries
\* lacking the id or the displayName.
ListedChoices ==
    {[id |-> i, displayName |-> "A"] : i \in Ids}
    \cup {[displayName |-> "A"], [id |-> "p1"]}

ListResponses ==
    {[status |-> 500, value |-> <<>>]}
    \cup {[status |-> 200, value |-> v] :
             v \in UNION {[1..n -> ListedChoices] : n \in 0..MaxItems}}

\* The identity provider as the export run meets it.
ExportIdP ==
    {[access_token |-> "T1", token_type |-> "Bearer"],
     [error |-> "invalid_client", error_description |-> "bad creds"]}

\* GET deviceCompliancePolicies/{id}: a failure, or the policy: complete, with
\* a null-valued field, or without its displayName.
PolicyPayloads(policy) ==
    LET id == Get(policy, "id", "p1")
        name == Get(policy, "displayName", "A")
    IN  {[id |-> JStr(id), displayName |-> JStr(name), description |-> JStr("d")],
         [id |-> JStr(id), displayName |-> JStr(name), description |-> JNull],
         [id |-> JStr(id), description |-> JStr("d")]}

DetailResponses(policy) ==
    {[status |-> 500, json |-> EmptyDoc]}
    \cup {[status |-> 200, json |-> p] : p \in PolicyPayloads(policy)}

\* GET .../assignments
AssignmentResponses ==
    {[status |-> 404, json |-> EmptyDoc],
     [status |-> 500, json |-> EmptyDoc],
     [status |-> 200, json |-> [value |-> <<[id |-> "as1"]>>]],
     [status |-> 200, json |-> EmptyDoc]}

(***************************************************************************)
(* Compliance policies: src/modules/python/export_compliance_policies.py   *)
(***************************************************************************)
\* The outcome of a call that may raise.
Raised == [raised |-> TRUE, value |-> <<>>]
Returned(v) == [raised |-> FALSE, value |-> v]

_get_policy_assignments_No404(resp) ==
    IF resp.status # 200 THEN Raised
    ELSE Returned(Get(resp.json, "value", <<>>))

\* export_compliance_policies.py:59-71  after the token: 404 is "no
\* assignments", any other failure raises (raise_for_status)
_get_policy_assignments(resp) ==
    IF resp.status = 404 THEN Returned(<<>>)
    ELSE IF resp.status # 200 THEN Raised
    ELSE Returned(Get(resp.json, "value", <<>>))

\* export_compliance_policies.py:48-57  after the token
_get_policy_details(resp) ==
    IF resp.status # 200 THEN Raised ELSE Returned(resp.json)

\* What one iteration of the compliance loop meets: every combination of
\* the identity provider's answer, the two responses and the write's success.
PolicyScenarios(policy) ==
    [idp : ExportIdP, det : DetailResponses(policy), asg : AssignmentResponses,
     ioOk : BOOLEAN]

\* export_compliance_policies.py:23-33  one iteration of the loop of
\* export_all on the listed object `policy`: what the try block and its
\* handler do, given the responses the iteration would get.
\*   propagated: the handler itself raised (line 33 reads policy['id'])
\*   caught:     the handler logged "Failed to export policy ..."
ExportPolicyIteration(policy, cache, include, sc) ==
    LET hasId == "id" \in DOMAIN policy
        t1 == get_token(cache, None, sc.idp)
        details == IF hasId /\ ~t1.raised THEN _get_policy_details(sc.det) ELSE Raised
        t2 == get_token(t1.cache, None, sc.idp)
        asked == ~details.raised /\ include
        assignments == IF asked /\ ~t2.raised THEN _get_policy_assignments(sc.asg)
                       ELSE Raised
        full_policy == IF asked /\ ~assignments.raised
                       THEN Put(details.value, "assignments", JList(assignments.value))
                       ELSE details.value
        reachedSave == ~details.raised /\ (~include \/ ~assignments.raised)
        named == /\ reachedSave
                 /\ {"displayName", "id"} \subseteq DOMAIN full_policy
                 /\ full_policy["displayName"].t = "str"
        wrote == named /\ sc.ioOk
        logged == wrote /\ "displayName" \in DOMAIN policy
    IN  [propagated |-> ~hasId,
         caught |-> hasId /\ ~logged,
         wrote |-> wrote,
         appended |-> wrote,
         path |-> IF wrote THEN <<"CompliancePolicies", PolicyFileName(full_policy)>>
                  ELSE <<"", "">>,
         doc |-> IF wrote THEN full_policy ELSE EmptyDoc,
         summary |-> IF wrote THEN full_policy ELSE EmptyDoc,
         cache |-> IF ~hasId THEN cache ELSE IF asked THEN t2.cache ELSE t1.cache,
         authFailed |-> (hasId /\ t1.raised) \/ (asked /\ t2.raised),
         detStatus |-> IF hasId /\ ~t1.raised THEN sc.det.status ELSE 0,
         asgStatus |-> IF asked /\ ~t2.raised THEN sc.asg.status ELSE 0,
         subStatuses |-> IF asked /\ ~t2.raised THEN {sc.asg.status} ELSE {},
         saveRaised |-> reachedSave /\ ~wrote]

(***************************************************************************)
(* Applications: src/modules/python/export_applications.py                 *)
(***************************************************************************)
\* GET mobileApps/{id}: the application: with a null-valued field and no
\* icon, with an icon, with an icon that does not decode, without displayName.
AppPayloads(app) ==
    LET id == Get(app, "id", "p1")
        name == Get(app, "displayName", "A")
        icon(v) == JDict([type |-> JStr("image/png"), value |-> JStr(v)])
    IN  {[id |-> JStr(id), displayName |-> JStr(name), displayVersion |-> JStr("1.0"),
          description |-> JNull],
         [id |-> JStr(id), displayName |-> JStr(name), largeIcon |-> icon("aWNvbg==")],
         [id |-> JStr(id), displayName |-> JStr(name), largeIcon |-> icon("!")],
         [id |-> JStr(id), description |-> JStr("d")]}

AppDetailResponses(app) ==
    {[status |-> 500, json |-> EmptyDoc]}
    \cup {[status |-> 200, json |-> p] : p \in AppPayloads(app)}

\* GET .../detectionRules and .../requirementRules
RuleResponses ==
    {[status |-> 404, json |-> EmptyDoc],
     [status |-> 200, json |-> [value |-> <<JStr("rule")>>]]}

AllDevicesTarget == [odata_type |-> "#microsoft.graph.allDevicesAssignmentTarget"]
GroupTarget == [odata_type |-> "#microsoft.graph.groupAssignmentTarget", groupId |-> "g1"]
GroupTargetNoId == [odata_type |-> "#microsoft.graph.groupAssignmentTarget"]

AsgAll == [id |-> "as1", intent |-> "required", target |-> AllDevicesTarget]
AsgGroup == [id |-> "as2", intent |-> "available", source |-> "policySets",
             target |-> GroupTarget]
AsgGroupNoId == [id |-> "as3", intent |-> "required", target |-> GroupTargetNoId]

\* GET mobileApps/{id}/assignments
AppAssignmentResponses ==
    {[status |-> 404, json |-> EmptyDoc]}
    \cup {[status |-> 200, json |-> [value |-> v]] :
             v \in {<<>>, <<AsgAll>>, <<AsgGroup, AsgAll>>, <<AsgAll, AsgGroup>>,
                    <<AsgGroupNoId, AsgAll>>}}

\* GET groups/{id}: the request raises, or answers
GroupResponses ==
    {[raises |-> TRUE, status |-> 0, json |-> EmptyDoc],
     [raises |-> FALSE, status |-> 404, json |-> EmptyDoc],
     [raises |-> FALSE, status |-> 200, json |-> [displayName |-> JStr("G")]],
     [raises |-> FALSE, status |-> 200, json |-> EmptyDoc]}

\* export_applications.py:72-95  after the token: the primary GET raises on
\* failure; each sub-resource is merged only on status 200
_get_app_details(resp, detection, requirement) ==
    IF resp.status # 200 THEN Raised
    ELSE LET d1 == IF detection.status = 200
                   THEN Put(resp.json, "detectionRules",
                            JList(Get(detection.json, "value", <<>>)))
                   ELSE resp.json
             d2 == IF requirement.status = 200
                   THEN Put(d1, "requirementRules",
                            JList(Get(requirement.json, "value", <<>>)))
                   ELSE d1
         IN  Returned(d2)

\* export_applications.py:109-126  one assignment of the response
AssignmentInfo(assignment, group) ==
    LET info == [id |-> assignment.id, intent |-> assignment.intent,
                 source |-> Get(assignment, "source", "direct"),
                 target |-> assignment.target]
        isGroup == Get(assignment.target, "odata_type", "")
                       = "#microsoft.graph.groupAssignmentTarget"
    IN  IF isGroup /\ ~group.raises /\ group.status = 200
        THEN Put(info, "targetGroupName", Get(group.json, "displayName", JNull))
        ELSE info

\* An assignment whose handling raises: a missing id, intent or target, or a
\* group target without groupId (line 118, outside the try).
AssignmentRaises(assignment) ==
    \/ ~({"id", "intent", "target"} \subseteq DOMAIN assignment)
    \/ /\ Get(assignment.target, "odata_type", "")
              = "#microsoft.graph.groupAssignmentTarget"
       /\ "groupId" \notin DOMAIN assignment.target

\* export_applications.py:97-128  after the token
_get_app_assignments(resp, group) ==
    IF resp.status # 200 THEN Raised
    ELSE LET value == Get(resp.json, "value", <<>>)
         IN  IF \E i \in 1..Len(value) : AssignmentRaises(value[i]) THEN Raised
             ELSE Returned([i \in 1..Len(value) |-> AssignmentInfo(value[i], group)])

\* The manifest's keys that are copied with app.get(key, default): the key of
\* the manifest, the key of the application, the default.
ManifestFields ==
    {<<"description", "description", JStr("")>>,
     <<"publisher", "publisher", JStr("")>>,
     <<"version", "displayVersion", JStr("")>>,
     <<"createdDateTime", "createdDateTime", JNull>>,
     <<"lastModifiedDateTime", "lastModifiedDateTime", JNull>>,
     <<"fileName", "fileName", JNull>>,
     <<"size", "size", JNull>>,
     <<"installCommandLine", "installCommandLine", JNull>>,
     <<"uninstallCommandLine", "uninstallCommandLine", JNull>>,
     <<"setupFilePath", "setupFilePath", JNull>>,
     <<"minimumFreeDiskSpaceInMB", "minimumFreeDiskSpaceInMB", JNull>>,
     <<"minimumMemoryInMB", "minimumMemoryInMB", JNull>>,
     <<"minimumNumberOfProcessors", "minimumNumberOfProcessors", JNull>>,
     <<"minimumCpuSpeedInMHz", "minimumCpuSpeedInMHz", JNull>>,
     <<"applicableArchitectures", "applicableArchitectures", JList(<<>>)>>,
     <<"minimumSupportedOperatingSystem", "minimumSupportedOperatingSystem",
       JDict(EmptyDoc)>>,
     <<"requiresReboot", "requiresReboot", JBool("false")>>,
     <<"msiInformation", "msiInformation", JNull>>,
     <<"returnCodes", "returnCodes", JList(<<>>)>>,
     <<"rules", "rules", JList(<<>>)>>,
     <<"detectionRules", "detectionRules", JList(<<>>)>>,
     <<"requirementRules", "requirementRules", JList(<<>>)>>}

\* export_applications.py:132-157  the manifest before its None values are dropped
RawManifest(app) ==
    [k \in {"id", "displayName"} \cup {f[1] : f \in ManifestFields} |->
        IF k \in {"id", "displayName"} THEN app[k]
        ELSE LET f == CHOOSE f \in ManifestFields : f[1] = k
             IN  Get(app, f[2], f[3])]

_build_manifest_KeepNone(app) ==
    IF ~({"id", "displayName"} \subseteq DOMAIN app) THEN Raised
    ELSE Returned(RawManifest(app))

\* export_applications.py:130-162  app['id'] and app['displayName'] raise
\* when missing; the None values are dropped
_build_manifest(app) ==
    IF ~({"id", "displayName"} \subseteq DOMAIN app) THEN Raised
    ELSE LET raw == RawManifest(app)
         IN  Returned([k \in {x \in DOMAIN raw : raw[x].t # "null"} |-> raw[k]])

\* base64.b64decode succeeds on this text
Decodes(text) == text = "aWNvbg=="

\* export_applications.py:164-179  whether _export_icon writes the icon file
IconWritten(icon_data, iconIoOk) ==
    /\ TruthyJ(icon_data)
    /\ icon_data.t = "dict"
    /\ TruthyJ(Get(icon_data.l[1], "value", JNull))
    /\ Decodes(icon_data.l[1]["value"].s)
    /\ iconIoOk

IconFileName(app_name) == _sanitize_filename(app_name) \o "_icon.png"

\* export_applications.py:183
ManifestFileName(app_name, app_id) ==
    _sanitize_filename(app_name) \o "_" \o app_id \o ".json"

\* export_applications.py:40
AppNote ==
    "Application content (.intunewin file) cannot be exported via Graph API. "
        \o "Original installer files must be maintained separately for re-import."

\* What one iteration of the applications loop meets: the iteration in which
\* every request succeeds (an application with an icon, assigned to a group
\* and to all devices), and every iteration that differs from it in one
\* response.
AppBase(app) ==
    [idp |-> [access_token |-> "T1", token_type |-> "Bearer"],
     det |-> [status |-> 200,
              json |-> [id |-> JStr(Get(app, "id", "p1")),
                        displayName |-> JStr(Get(app, "displayName", "A")),
                        largeIcon |-> JDict([type |-> JStr("image/png"),
                                             value |-> JStr("aWNvbg==")])]],
     detection |-> [status |-> 200, json |-> [value |-> <<JStr("rule")>>]],
     requirement |-> [status |-> 200, json |-> [value |-> <<JStr("rule")>>]],
     asg |-> [status |-> 200, json |-> [value |-> <<AsgGroup, AsgAll>>]],
     group |-> [raises |-> FALSE, status |-> 200, json |-> [displayName |-> JStr("G")]],
     iconIoOk |-> TRUE,
     ioOk |-> TRUE]

AppScenarios(app) ==
    LET b == AppBase(app)
    IN  {[b EXCEPT !.idp = x] : x \in ExportIdP}
        \cup {[b EXCEPT !.det = x] : x \in AppDetailResponses(app)}
        \cup {[b EXCEPT !.detection = x] : x \in RuleResponses}
        \cup {[b EXCEPT !.requirement = x] : x \in RuleResponses}
        \cup {[b EXCEPT !.asg = x] : x \in AppAssignmentResponses}
        \cup {[b EXCEPT !.group = x] : x \in GroupResponses}
        \cup {[b EXCEPT !.iconIoOk = x] : x \in BOOLEAN}
        \cup {[b EXCEPT !.ioOk = x] : x \in BOOLEAN}

\* export_applications.py:24-54  one iteration of the loop of export_all on
\* the listed object `app`, given the responses the iteration would get.
ExportAppIteration(app, cache, include, sc) ==
    LET hasId == "id" \in DOMAIN app
        hasName == "displayName" \in DOMAIN app
        t1 == get_token(cache, None, sc.idp)
        details == IF hasId /\ ~t1.raised
                   THEN _get_app_details(sc.det, sc.detection, sc.requirement)
                   ELSE Raised
        full_app == details.value
        built == IF details.raised THEN Raised ELSE _build_manifest(full_app)
        t2 == get_token(t1.cache, None, sc.idp)
        asked == ~built.raised /\ include
        assignments == IF asked /\ ~t2.raised
                       THEN _get_app_assignments(sc.asg, sc.group)
                       ELSE Raised
        m1 == IF asked /\ ~assignments.raised
              THEN Put(built.value, "assignments", JList(assignments.value))
              ELSE built.value
        reachedIcon == ~built.raised /\ (~include \/ ~assignments.raised)
        hasIcon == reachedIcon /\ TruthyJ(Get(full_app, "largeIcon", JNull))
        \* line 37 reads app['displayName']
        iconRaised == hasIcon /\ ~hasName
        iconWritten == hasIcon /\ hasName
                          /\ IconWritten(full_app["largeIcon"], sc.iconIoOk)
        m2 == IF hasIcon /\ hasName
              THEN Put(m1, "iconFile", JStr(IconFileName(app["displayName"])))
              ELSE m1
        manifest == Put(m2, "note", JStr(AppNote))
        reachedSave == reachedIcon /\ ~iconRaised
        wrote == reachedSave /\ hasName /\ sc.ioOk
    IN  [propagated |-> ~hasId,
         caught |-> hasId /\ ~wrote,
         wrote |-> wrote,
         appended |-> wrote,
         path |-> IF wrote
                  THEN <<"Applications", ManifestFileName(app["displayName"], app["id"])>>
                  ELSE <<"", "">>,
         doc |-> IF wrote THEN manifest ELSE EmptyDoc,
         summary |-> IF wrote
                     THEN [id |-> JStr(app["id"]), displayName |-> JStr(app["displayName"]),
                           version |-> Get(full_app, "displayVersion", JStr("Unknown")),
                           status |-> JStr("Exported")]
                     ELSE EmptyDoc,
         iconWritten |-> iconWritten,
         iconPath |-> IF iconWritten
                      THEN <<"Applications", IconFileName(app["displayName"])>>
                      ELSE <<"", "">>,
         cache |-> IF ~hasId THEN cache ELSE IF asked THEN t2.cache ELSE t1.cache,
         authFailed |-> (hasId /\ t1.raised) \/ (asked /\ t2.raised),
         detStatus |-> IF hasId /\ ~t1.raised THEN sc.det.status ELSE 0,
         asgStatus |-> IF asked /\ ~t2.raised THEN sc.asg.status ELSE 0,
         subStatuses |-> (IF details.raised THEN {}
                          ELSE {sc.detection.status, sc.requirement.status})
                         \cup (IF asked /\ ~t2.raised THEN {sc.asg.status} ELSE {}),
         buildRaised |-> ~details.raised /\ built.raised,
         asgKeyError |-> asked /\ ~t2.raised /\ sc.asg.status = 200
                            /\ assignments.raised,
         asgValue |-> IF asked /\ ~t2.raised /\ sc.asg.status = 200
                      THEN Get(sc.asg.json, "value", <<>>) ELSE <<>>,
         iconRaised |-> iconRaised,
         saveRaised |-> reachedSave /\ ~wrote]

(***************************************************************************)
(* The export command: src/export_runner.py                                *)
(***************************************************************************)
\* no exit code yet: the process runs
NoExit == 0 - 1

NoItem == [kind |-> "none", detStatus |-> 0, asgStatus |-> 0, subStatuses |-> {},
           wrote |-> FALSE, saveRaised |-> FALSE, otherRaised |-> FALSE,
           asgKeyError |-> FALSE, asgValue |-> <<>>, path |-> <<"", "">>]

Modules == {"compliance_policies", "applications", "all"}

EnvVars == {"AZURE_TENANT_ID", "AZURE_CLIENT_ID", "AZURE_CLIENT_SECRET",
            "EXPORT_INCLUDE_ASSIGNMENTS"}

\* The environments of the model: each required variable unset, empty or
\* set; the assignments toggle unset (true) or "False".
Environments ==
    {e \in [EnvVars -> {Unset, "", "x", "False"}] :
        /\ \A i \in 1..Len(RequiredVars) : e[RequiredVars[i]] \in {Unset, "", "x"}
        /\ e["EXPORT_INCLUDE_ASSIGNMENTS"] \in {Unset, "False"}}

NoFiles == [f \in {} |-> JsonFile(EmptyDoc)]

\* No export run: the variables of the export command at rest.
ExportRest ==
    /\ entry = "none"
    /\ env = [v \in EnvVars |-> Unset]
    /\ pc = "idle"
    /\ items = <<>>
    /\ idx = 1
    /\ exported = <<>>
    /\ nWrites = 0
    /\ nSkips = 0
    /\ aborted = "none"
    /\ authFailed = FALSE
    /\ exitCode = NoExit
    /\ lastItem = NoItem

ExportIdle == ExportRest /\ exports = NoFiles

\* Nothing has been compared and no changelog written.
NoEntry == [emitted |-> FALSE]

NoReports == [f \in {} |-> [timestamp |-> 0]]

DiffRest ==
    /\ changeLogs = NoReports
    /\ now = 0
    /\ runs = 0
    /\ nChanges = 0
    /\ lastTree = NoFiles
    /\ sameAsPrevious = FALSE
    /\ runLog = <<>>

NoOut == [applied |-> FALSE, added |-> <<>>, removed |-> <<>>, modified |-> <<>>]
NoCmp == [applied |-> FALSE, path |-> <<"", "">>, result |-> NoEntry]

\* No Config has been constructed.
NoConfig == [state |-> "none", message |-> "", read |-> FALSE, beta_enabled |-> FALSE,
             pretty_print |-> FALSE, include_assignments |-> FALSE]

ConfigRest == config = NoConfig

FnRest ==
    /\ fnCur = NoFiles
    /\ fnPrev = NoFiles
    /\ fnOut = NoOut
    /\ fnCmp = NoCmp

\* The command is started with some --module in some environment, over an
\* empty export tree; or ApplicationExporter.export_all is called by a
\* caller that has built a Config and a GraphAuthenticator.
InitExport ==
    /\ AuthFresh
    /\ entry \in Modules \cup {"ApplicationExporter"}
    /\ env \in Environments
    /\ entry = "ApplicationExporter" => validate_required_vars(env) = <<>>
    /\ pc = IF entry = "ApplicationExporter" THEN "list_apps" ELSE "main"
    /\ items = <<>>
    /\ idx = 1
    /\ exported = <<>>
    /\ exports = NoFiles
    /\ nWrites = 0
    /\ nSkips = 0
    /\ aborted = "none"
    /\ authFailed = FALSE
    /\ exitCode = NoExit
    /\ lastItem = NoItem
    /\ DiffRest
    /\ ConfigRest
    /\ FnRest

\* export_runner.py:50-62  Config() and GraphAuthenticator(config), then the
\* dispatch on --module. Config() raises when a required variable is missing.
MainSetup ==
    /\ pc = "main"
    /\ IF validate_required_vars(env) # <<>>
       THEN pc' = "failed" /\ aborted' = "config"
       ELSE /\ pc' = IF entry = "applications" THEN "applications" ELSE "list_policies"
            /\ aborted' = aborted
    /\ UNCHANGED <<authVars, diffVars, fnVars, config,
                   entry, env, items, idx, exported, exports, nWrites,
                   nSkips, authFailed, exitCode, lastItem>>

\* export_compliance_policies.py:20, 37-46  export_all's list call
ListPolicies ==
    /\ pc = "list_policies"
    /\ \E idp \in ExportIdP, resp \in ListResponses :
          LET t == get_token(tokenCache, None, idp)
          IN  /\ tokenCache' = t.cache
              /\ authFailed' = (authFailed \/ t.raised)
              /\ IF t.raised \/ resp.status # 200
                 THEN /\ pc' = "failed"
                      /\ aborted' = IF t.raised THEN "auth" ELSE "list"
                      /\ items' = items
                 ELSE /\ pc' = "policy_loop"
                      /\ aborted' = aborted
                      /\ items' = resp.value
    /\ idx' = 1
    /\ exported' = <<>>
    /\ UNCHANGED <<nCalls, issued, lastCall, entry, env, exports, nWrites, nSkips,
                   exitCode, lastItem, diffVars, fnVars, config>>

\* export_compliance_policies.py:23-33  one iteration of export_all's loop
ExportPolicy ==
    /\ pc = "policy_loop"
    /\ idx <= Len(items)
    /\ \E sc \in PolicyScenarios(items[idx]) :
        \E o \in {ExportPolicyIteration(items[idx], tokenCache,
                                        include_assignments(env), sc)} :
              /\ tokenCache' = o.cache
              /\ authFailed' = (authFailed \/ o.authFailed)
              /\ exports' = IF o.wrote THEN Put(exports, o.path, JsonFile(o.doc)) ELSE exports
              /\ exported' = IF o.appended THEN Append(exported, o.summary)
                             ELSE exported
              /\ nWrites' = IF o.wrote THEN nWrites + 1 ELSE nWrites
              /\ nSkips' = IF o.caught THEN nSkips + 1 ELSE nSkips
              /\ lastItem' = [kind |-> "policy",
                              detStatus |-> o.detStatus, asgStatus |-> o.asgStatus,
                              subStatuses |-> o.subStatuses,
                              wrote |-> o.wrote, saveRaised |-> o.saveRaised,
                              otherRaised |-> FALSE,
                              asgKeyError |-> FALSE, asgValue |-> <<>>,
                              path |-> o.path]
              /\ IF o.propagated
                 THEN pc' = "failed" /\ aborted' = "item" /\ idx' = idx
                 ELSE pc' = pc /\ aborted' = aborted /\ idx' = idx + 1
    /\ UNCHANGED <<nCalls, issued, lastCall, entry, env, items, exitCode, diffVars,
                   fnVars, config>>

\* export_compliance_policies.py:35 and export_runner.py:29-31, 56-62
\* export_all returns; the command goes on to the applications placeholder
\* (--module all) or to its end.
ReturnPolicies ==
    /\ pc = "policy_loop"
    /\ idx > Len(items)
    /\ pc' = IF entry = "all" THEN "applications" ELSE "completed"
    /\ UNCHANGED <<authVars, diffVars, fnVars, config,
                   entry, env, items, idx, exported, exports, nWrites,
                   nSkips, aborted, authFailed, exitCode, lastItem>>

\* export_runner.py:34-37  run_applications_export, a placeholder
RunApplicationsPlaceholder ==
    /\ pc = "applications"
    /\ pc' = "completed"
    /\ UNCHANGED <<authVars, diffVars, fnVars, config,
                   entry, env, items, idx, exported, exports, nWrites,
                   nSkips, aborted, authFailed, exitCode, lastItem>>

\* export_runner.py:64  "Export completed successfully"; the process ends
MainCompleted ==
    /\ pc = "completed"
    /\ pc' = "exit"
    /\ exitCode' = 0
    /\ UNCHANGED <<authVars, diffVars, fnVars, config,
                   entry, env, items, idx, exported, exports, nWrites,
                   nSkips, aborted, authFailed, lastItem>>

\* export_runner.py:66-68  except Exception: log and sys.exit(1)
MainExcept ==
    /\ pc = "failed"
    /\ entry \in Modules
    /\ pc' = "exit"
    /\ exitCode' = 1
    /\ UNCHANGED <<authVars, diffVars, fnVars, config,
                   entry, env, items, idx, exported, exports, nWrites,
                   nSkips, aborted, authFailed, lastItem>>

\* export_applications.py:21, 58-70  ApplicationExporter.export_all's list call
ListApps ==
    /\ pc = "list_apps"
    /\ \E idp \in ExportIdP, resp \in ListResponses :
          LET t == get_token(tokenCache, None, idp)
          IN  /\ tokenCache' = t.cache
              /\ authFailed' = (authFailed \/ t.raised)
              /\ IF t.raised \/ resp.status # 200
                 THEN /\ pc' = "failed"
                      /\ aborted' = IF t.raised THEN "auth" ELSE "list"
                      /\ items' = items
                 ELSE /\ pc' = "app_loop"
                      /\ aborted' = aborted
                      /\ items' = resp.value
    /\ idx' = 1
    /\ exported' = <<>>
    /\ UNCHANGED <<nCalls, issued, lastCall, entry, env, exports, nWrites, nSkips,
                   exitCode, lastItem, diffVars, fnVars, config>>

\* export_applications.py:24-54  one iteration of export_all's loop
ExportApp ==
    /\ pc = "app_loop"
    /\ idx <= Len(items)
    /\ \E sc \in AppScenarios(items[idx]) :
        \E o \in {ExportAppIteration(items[idx], tokenCache,
                                     include_assignments(env), sc)} :
          LET withIcon == IF o.iconWritten THEN Put(exports, o.iconPath, PngFile)
                          ELSE exports
          IN  /\ tokenCache' = o.cache
              /\ authFailed' = (authFailed \/ o.authFailed)
              /\ exports' = IF o.wrote THEN Put(withIcon, o.path, JsonFile(o.doc))
                            ELSE withIcon
              /\ exported' = IF o.appended THEN Append(exported, o.summary)
                             ELSE exported
              /\ nWrites' = IF o.wrote THEN nWrites + 1 ELSE nWrites
              /\ nSkips' = IF o.caught THEN nSkips + 1 ELSE nSkips
              /\ lastItem' = [kind |-> "app",
                              detStatus |-> o.detStatus, asgStatus |-> o.asgStatus,
                              subStatuses |-> o.subStatuses,
                              wrote |-> o.wrote, saveRaised |-> o.saveRaised,
                              otherRaised |-> (o.buildRaised \/ o.iconRaised),
                              asgKeyError |-> o.asgKeyError, asgValue |-> o.asgValue,
                              path |-> o.path]
              /\ IF o.propagated
                 THEN pc' = "failed" /\ aborted' = "item" /\ idx' = idx
                 ELSE pc' = pc /\ aborted' = aborted /\ idx' = idx + 1
    /\ UNCHANGED <<nCalls, issued, lastCall, entry, env, items, exitCode, diffVars,
                   fnVars, config>>

\* export_applications.py:56  export_all returns the list to its caller
ReturnApps ==
    /\ pc = "app_loop"
    /\ idx > Len(items)
    /\ pc' = "returned"
    /\ UNCHANGED <<authVars, diffVars, fnVars, config,
                   entry, env, items, idx, exported, exports, nWrites,
                   nSkips, aborted, authFailed, exitCode, lastItem>>

(***************************************************************************)
(* Diff generator: src/utils/diff_generator.py                             *)
(***************************************************************************)
\* paths are relative to the export root: <<directory, file name>>, the
\* directory "" for a file in the root itself
ExportBaseName == "exports"

\* diff_generator.py:58-60  rglob("*.json"): the manifests, not the icons
_get_all_export_files(tree) == {f \in DOMAIN tree : tree[f].kind # "png"}

\* diff_generator.py:62-66  no previous state is ever retrieved
_get_previous_files == NoFiles

\* diff_generator.py:114-117  the name of the directory that holds the file
_get_object_type(path) == IF path[1] = "" THEN ExportBaseName ELSE path[1]

_create_change_entry_NoErrorName(path, file, change_type) ==
    [objectType |-> _get_object_type(path),
     displayName |-> Get(file.doc, "displayName", JStr("Unknown")),
     objectId |-> Get(file.doc, "id", JStr("Unknown")),
     changeType |-> change_type]

\* diff_generator.py:68-87
_create_change_entry(path, file, change_type) ==
    IF file.kind = "json"
    THEN [objectType |-> _get_object_type(path),
          displayName |-> Get(file.doc, "displayName", JStr("Unknown")),
          objectId |-> Get(file.doc, "id", JStr("Unknown")),
          changeType |-> change_type]
    ELSE [objectType |-> _get_object_type(path),
          displayName |-> JStr("Error reading file"),
          objectId |-> JStr("Unknown"),
          changeType |-> change_type]

Range(q) == {q[i] : i \in DOMAIN q}

\* DeepDiff(old, new, ignore_order=True, exclude_paths=excluded) on two
\* documents: the set of differences, each with DeepDiff's category and the
\* path of keys from the root. Lists are compared as sets of items
\* (ignore_order, repetitions not reported).
RECURSIVE DiffDicts(_, _, _, _)
RECURSIVE DiffValues(_, _, _, _)
DiffValues(path, a, b, excluded) ==
    IF a.t # b.t
    THEN {[category |-> "type_changes", path |-> path, old |-> a, new |-> b]}
    ELSE IF a.t = "dict" THEN DiffDicts(path, a.l[1], b.l[1], excluded)
    ELSE IF a.t = "list"
    THEN {[category |-> "iterable_item_removed", path |-> path, old |-> x, new |-> JNull] :
             x \in Range(a.l) \ Range(b.l)}
         \cup {[category |-> "iterable_item_added", path |-> path, old |-> JNull, new |-> x] :
                  x \in Range(b.l) \ Range(a.l)}
    ELSE IF a.s # b.s
    THEN {[category |-> "values_changed", path |-> path, old |-> a, new |-> b]}
    ELSE {}

DiffDicts(path, d1, d2, excluded) ==
    LET keys == {k \in DOMAIN d1 \cup DOMAIN d2 : Append(path, k) \notin excluded}
    IN  {[category |-> "dictionary_item_removed", path |-> Append(path, k),
          old |-> d1[k], new |-> JNull] : k \in {x \in keys : x \notin DOMAIN d2}}
        \cup {[category |-> "dictionary_item_added", path |-> Append(path, k),
               old |-> JNull, new |-> d2[k]] : k \in {x \in keys : x \notin DOMAIN d1}}
        \cup UNION {DiffValues(Append(path, k), d1[k], d2[k], excluded) :
                       k \in {x \in keys : x \in DOMAIN d1 /\ x \in DOMAIN d2}}

DeepDiff_NoExclude(old_data, new_data) == DiffDicts(<<>>, old_data, new_data, {})

\* diff_generator.py:99-100
DeepDiff(old_data, new_data) ==
    DiffDicts(<<>>, old_data, new_data, {<<"lastModifiedDateTime">>})

\* diff_generator.py:119-131  only values_changed is kept, each change
\* under the first key of its path. Changes with the same first key are
\* written to the same key of `formatted`, and the one DeepDiff lists last
\* stays: the set of the dicts that can result, one per such choice.
_format_deepdiff(diff) ==
    LET changed == {d \in diff : d.category = "values_changed"}
        keys == {d.path[1] : d \in changed}
    IN  {[k \in keys |-> [old |-> w[k].old, new |-> w[k].new]] :
            w \in {v \in [keys -> changed] : \A k \in keys : v[k].path[1] = k}}

\* diff_generator.py:89-112  the results the call can have: the modified
\* entry, or None; None too when a file cannot be read or parsed
_compare_files(path, old_file, new_file) ==
    IF old_file.kind # "json" \/ new_file.kind # "json" THEN {NoEntry}
    ELSE LET diff == DeepDiff(old_file.doc, new_file.doc)
         IN  IF diff = {} THEN {NoEntry}
             ELSE {[emitted |-> TRUE,
                    objectType |-> _get_object_type(path),
                    displayName |-> Get(new_file.doc, "displayName", JStr("Unknown")),
                    objectId |-> Get(new_file.doc, "id", JStr("Unknown")),
                    changes |-> c] : c \in _format_deepdiff(diff)}

\* The orders in which a set can be iterated.
Orderings(S) ==
    {q \in [1..Cardinality(S) -> S] : \A i, j \in DOMAIN q : i # j => q[i] # q[j]}

RECURSIVE KeepEmitted(_)
KeepEmitted(q) ==
    IF q = <<>> THEN <<>>
    ELSE IF Head(q).emitted THEN <<Head(q)>> \o KeepEmitted(Tail(q))
    ELSE KeepEmitted(Tail(q))

added_paths_AllCurrent(current, previous) == DOMAIN current

\* diff_generator.py:37
added_paths(current, previous) == DOMAIN current \ DOMAIN previous

\* diff_generator.py:42
removed_paths(current, previous) == DOMAIN previous \ DOMAIN current

\* diff_generator.py:47
common_paths(current, previous) == DOMAIN current \cap DOMAIN previous

\* diff_generator.py:49  what _compare_files can return for each common path
CompareResults(current, previous) ==
    LET common == common_paths(current, previous)
        all == UNION {_compare_files(f, previous[f], current[f]) : f \in common}
    IN  {r \in [common -> all] :
            \A f \in common : r[f] \in _compare_files(f, previous[f], current[f])}

\* diff_generator.py:32-51  the three lists of generate_change_log from the
\* current and the previous files, the sets iterated in the orders oa, orm,
\* oc and _compare_files returning results[path]
CompareSnapshots(current, previous, oa, orm, oc, results) ==
    [added |-> [i \in DOMAIN oa |->
                   _create_change_entry(oa[i], current[oa[i]], "added")],
     removed |-> [i \in DOMAIN orm |->
                     _create_change_entry(orm[i], previous[orm[i]], "removed")],
     modified |-> KeepEmitted([i \in DOMAIN oc |-> results[oc[i]]])]

\* diff_generator.py:135-136  strftime("%Y%m%d_%H%M%S"): the second of the tick
ChangeLogFileName(tick) == "changelog_" \o ToString(tick \div TicksPerSecond) \o ".json"

\* The files an export run leaves in the tree, per path.
DiffPaths == {<<"CompliancePolicies", "A_p1.json">>, <<"Applications", "A_p2.json">>}

Manifest(id, name, modified) ==
    JsonFile([id |-> JStr(id), displayName |-> JStr(name),
              lastModifiedDateTime |-> JStr(modified)])

\* A manifest with a description, an object of two settings and a list.
DetailedManifest(id, description, setting, tags) ==
    JsonFile([id |-> JStr(id), displayName |-> JStr("A"),
              lastModifiedDateTime |-> JStr("t1"),
              description |-> description,
              settings |-> JDict([a |-> JStr(setting), b |-> JStr(setting)]),
              tags |-> JList(tags)])

IdAt(path) == IF path[1] = "CompliancePolicies" THEN "p1" ELSE "p2"

\* What a manifest path can hold: the object, the object re-exported with
\* another lastModifiedDateTime, the object renamed, a document without id,
\* the object with a null description, nested settings and a list, the same
\* with the description set, the settings changed and the list reordered,
\* or text that is no JSON.
FileChoices(path) ==
    {Manifest(IdAt(path), "A", "t1"), Manifest(IdAt(path), "A", "t2"),
     Manifest(IdAt(path), "B", "t1"), JsonFile([displayName |-> JStr("A")]),
     DetailedManifest(IdAt(path), JNull, "1", <<JStr("x"), JStr("y")>>),
     DetailedManifest(IdAt(path), JStr("d"), "2", <<JStr("y"), JStr("x")>>),
     GarbageFile}

Snapshots ==
    UNION {{t \in [S -> UNION {FileChoices(q) : q \in DiffPaths}] :
               \A q \in S : t[q] \in FileChoices(q)} : S \in SUBSET DiffPaths}

\* The changelog command is run over the tree that export runs have left.
InitDiff ==
    /\ AuthFresh
    /\ ExportRest
    /\ exports \in Snapshots
    /\ DiffRest
    /\ ConfigRest
    /\ FnRest

\* An export run rewrites, adds or removes one manifest of the tree.
ExportsChange ==
    /\ nChanges < MaxChanges
    /\ \E path \in DiffPaths :
          \/ \E file \in FileChoices(path) :
                /\ ~(path \in DOMAIN exports /\ exports[path] = file)
                /\ exports' = Put(exports, path, file)
          \/ /\ path \in DOMAIN exports
             /\ exports' = [f \in DOMAIN exports \ {path} |-> exports[f]]
    /\ nChanges' = nChanges + 1
    /\ UNCHANGED <<authVars, fnVars, config, entry, env, pc, items, idx, exported, nWrites,
                   nSkips, aborted, authFailed, exitCode, lastItem,
                   changeLogs, now, runs, lastTree, sameAsPrevious, runLog>>

\* Time passes.
Tick ==
    /\ now < MaxTime
    /\ now' = now + 1
    /\ UNCHANGED <<authVars, exportVars, fnVars, config, changeLogs, runs, nChanges,
                   lastTree, sameAsPrevious, runLog>>

\* generate_changelog.py:13-34 and diff_generator.py:16-56, 133-145  one run
\* of the changelog command: the report is built from the current files and
\* _get_previous_files, stamped with the time, and saved under the name of
\* the second and as latest.json. The clock is read at line 19 and again
\* at line 135, dt later.
RunChangelog ==
    /\ runs < MaxRuns
    /\ LET current == [f \in _get_all_export_files(exports) |-> exports[f]]
           previous == _get_previous_files
       IN  \E oa \in Orderings(added_paths(current, previous)),
              orm \in Orderings(removed_paths(current, previous)),
              oc \in Orderings(common_paths(current, previous)),
              results \in CompareResults(current, previous),
              dt \in {d \in {0, 1} : now + d <= MaxTime} :
              \E lists \in {CompareSnapshots(current, previous, oa, orm, oc, results)} :
                 LET changes == [timestamp |-> now, commit |-> "None",
                                 added |-> lists.added, removed |-> lists.removed,
                                 modified |-> lists.modified]
                     saved == Put(changeLogs, ChangeLogFileName(now + dt), changes)
                 IN  /\ changeLogs' = Put(saved, "latest.json", changes)
                     /\ runLog' = Append(runLog, [file |-> ChangeLogFileName(now + dt),
                                                  report |-> changes])
                     /\ now' = now + dt
    /\ runs' = runs + 1
    /\ lastTree' = exports
    /\ sameAsPrevious' = (runs >= 1 /\ exports = lastTree)
    /\ UNCHANGED <<authVars, exportVars, fnVars, config, nChanges>>

NextDiff ==
    \/ ExportsChange
    \/ Tick
    \/ RunChangelog

SpecDiff == InitDiff /\ [][NextDiff]_vars

\* The comparison is given any two snapshots.
InitDiffFn ==
    /\ AuthFresh
    /\ ExportIdle
    /\ DiffRest
    /\ ConfigRest
    /\ fnCur \in Snapshots
    /\ fnPrev \in Snapshots
    /\ fnOut = NoOut
    /\ fnCmp = NoCmp

\* diff_generator.py:32-51 applied to the two snapshots
ApplyCompareSnapshots ==
    /\ ~fnOut.applied
    /\ \E oa \in Orderings(added_paths(fnCur, fnPrev)),
          orm \in Orderings(removed_paths(fnCur, fnPrev)),
          oc \in Orderings(common_paths(fnCur, fnPrev)),
          results \in CompareResults(fnCur, fnPrev) :
          \E lists \in {CompareSnapshots(fnCur, fnPrev, oa, orm, oc, results)} :
             fnOut' = [applied |-> TRUE, added |-> lists.added,
                       removed |-> lists.removed, modified |-> lists.modified]
    /\ UNCHANGED <<authVars, exportVars, diffVars, fnCur, fnPrev, fnCmp, config>>

\* diff_generator.py:89-112 applied to the two versions of a common path
ApplyCompareFiles ==
    /\ ~fnCmp.applied
    /\ \E path \in common_paths(fnCur, fnPrev) :
          \E result \in _compare_files(path, fnPrev[path], fnCur[path]) :
             fnCmp' = [applied |-> TRUE, path |-> path, result |-> result]
    /\ UNCHANGED <<authVars, exportVars, diffVars, fnCur, fnPrev, fnOut, config>>

NextDiffFn ==
    \/ ApplyCompareSnapshots
    \/ ApplyCompareFiles

SpecDiffFn == InitDiffFn /\ [][NextDiffFn]_vars

ToggleVars == {"GRAPH_API_BETA_ENABLED", "EXPORT_PRETTY_PRINT", "EXPORT_INCLUDE_ASSIGNMENTS"}

\* The values the model gives a boolean variable: spellings of true,
\* false, other text and the empty string.
ToggleValues == {"true", "TRUE", "True", "false", "Yes", ""}

\* The environments a Config is constructed in (after load_dotenv): each
\* required variable unset, empty or set; each toggle unset or some text.
ConfigEnvironments ==
    {e \in [{RequiredVars[i] : i \in 1..Len(RequiredVars)} \cup ToggleVars
               -> {Unset, "x"} \cup ToggleValues] :
        /\ \A i \in 1..Len(RequiredVars) : e[RequiredVars[i]] \in {Unset, "", "x"}
        /\ \A v \in ToggleVars : e[v] \in {Unset} \cup ToggleValues}

InitConfig ==
    /\ AuthFresh
    /\ entry = "none"
    /\ env \in ConfigEnvironments
    /\ pc = "idle"
    /\ items = <<>>
    /\ idx = 1
    /\ exported = <<>>
    /\ exports = NoFiles
    /\ nWrites = 0
    /\ nSkips = 0
    /\ aborted = "none"
    /\ authFailed = FALSE
    /\ exitCode = NoExit
    /\ lastItem = NoItem
    /\ DiffRest
    /\ FnRest
    /\ ConfigRest

\* config.py:8-10  config = Config()
ConstructConfig ==
    /\ config.state = "none"
    /\ \E c \in {Config(env)} :
          config' = [config EXCEPT !.state = IF c.raised THEN "raised" ELSE "ok",
                                   !.message = c.message]
    /\ UNCHANGED <<authVars, exportVars, diffVars, fnVars>>

\* config.py:20-33  the graph_config and export_config properties are read
ReadToggles ==
    /\ config.state = "ok"
    /\ ~config.read
    /\ config' = [config EXCEPT !.read = TRUE,
                                !.beta_enabled = beta_enabled(env),
                                !.pretty_print = pretty_print(env),
                                !.include_assignments = include_assignments(env)]
    /\ UNCHANGED <<authVars, exportVars, diffVars, fnVars>>

NextConfig ==
    \/ ConstructConfig
    \/ ReadToggles

SpecConfig == InitConfig /\ [][NextConfig]_vars

InitAuth == AuthFresh /\ ExportIdle /\ DiffRest /\ FnRest /\ ConfigRest

NextAuth == CallGetToken

SpecAuth == InitAuth /\ [][NextAuth]_vars

NextExport ==
    \/ MainSetup
    \/ ListPolicies
    \/ ExportPolicy
    \/ ReturnPolicies
    \/ RunApplicationsPlaceholder
    \/ MainCompleted
    \/ MainExcept
    \/ ListApps
    \/ ExportApp
    \/ ReturnApps

SpecExport == InitExport /\ [][NextExport]_vars

(***************************************************************************)
(* Claims about the export                                                 *)
(***************************************************************************)
\* export_all is over: it returned, or an exception left its loop.
ExportAllOver ==
    \/ pc \in {"returned", "applications", "completed"}
    \/ aborted = "item"
    \/ pc = "exit" /\ aborted = "none"

Manifests == {f \in DOMAIN exports : exports[f].kind = "json"}

NoNullValue(doc) == \A k \in DOMAIN doc : doc[k].t # "null"

\* C1: a failure while processing one listed object (a failed request, a
\* failed write, a listed object without id or displayName) is caught, logged
\* and skipped: no exception leaves the loop of export_all, and when
\* export_all is over every listed object has been processed.
C1_PerObjectFailureNeverAborts ==
    /\ aborted # "item"
    /\ ExportAllOver => idx = Len(items) + 1

\* C2: when export_all is over, the manifests written plus the skips logged
\* are as many as the listed objects, and the returned list holds exactly the
\* objects whose manifest was written.
C2_WrittenPlusSkippedIsListed ==
    ExportAllOver =>
        /\ nWrites + nSkips = Len(items)
        /\ Len(exported) = nWrites

\* C4: in a run of the export command in which a token acquisition fails, no
\* manifest is written, the run is abandoned and the command ends with exit
\* code 1.
C4_AuthFailureAbortsBeforeAnyWrite ==
    (entry \in Modules /\ authFailed) =>
        /\ nWrites = 0
        /\ Manifests = {}
        /\ pc \in {"failed", "exit"}
        /\ pc = "exit" => exitCode = 1

\* The command has ended with exit code 1 after the identity provider
\* rejected the credential.
C4_Witness ==
    /\ entry = "compliance_policies"
    /\ authFailed
    /\ aborted = "auth"
    /\ pc = "exit"
    /\ exitCode = 1

\* C6 as stated: no manifest written by either exporter has a top-level key
\* whose value is null.
C6_NoNullInAnyManifest ==
    \A f \in Manifests : NoNullValue(exports[f].doc)

\* C6, amended: no manifest written by the application exporter has a
\* top-level key whose value is null.
C6_NoNullInApplicationManifest ==
    \A f \in Manifests : f[1] = "Applications" => NoNullValue(exports[f].doc)

\* An application manifest written from a payload whose description is null:
\* the key is dropped, while the payload's displayVersion is copied.
C6_Witness ==
    \E f \in Manifests :
        /\ f[1] = "Applications"
        /\ "description" \notin DOMAIN exports[f].doc
        /\ exports[f].doc["version"] = JStr("1.0")

\* C7: with assignments enabled, a compliance policy whose assignments
\* request answers 404 is written with assignments = [] and returned, unless
\* writing the manifest itself fails.
C7_Assignments404IsEmptyList ==
    (lastItem.kind = "policy" /\ lastItem.asgStatus = 404) =>
        \/ lastItem.saveRaised
        \/ /\ lastItem.wrote
           /\ lastItem.path \in Manifests
           /\ exports[lastItem.path].doc["assignments"] = JList(<<>>)
           /\ exported # <<>>
           /\ exported[Len(exported)] = exports[lastItem.path].doc

\* A policy written with assignments = [] after a 404.
C7_Witness ==
    /\ lastItem.kind = "policy"
    /\ lastItem.asgStatus = 404
    /\ lastItem.wrote
    /\ include_assignments(env)
    /\ exports[lastItem.path].doc["assignments"] = JList(<<>>)

(***************************************************************************)
(* Claims about the token provider                                         *)
(***************************************************************************)
\* The same scopes in any order.
SameScopes(s1, s2) ==
    /\ Len(s1) = Len(s2)
    /\ \A x \in ScopeNames \cup {DefaultScope} :
          Cardinality({i \in 1..Len(s1) : s1[i] = x})
              = Cardinality({i \in 1..Len(s2) : s2[i] = x})

\* C3: once get_token has succeeded for a scope list, every later get_token
\* for the same scopes, in any order, returns the token issued then and does
\* not contact the identity provider.
C3_CachedTokenReused ==
    [][nCalls' = nCalls + 1 =>
         \A h \in issued :
            SameScopes(h.scopes, lastCall'.scopes) =>
               /\ ~lastCall'.raised
               /\ lastCall'.token = h.token
               /\ ~lastCall'.contacted]_vars

\* A cache hit for scopes given in another order than when the token was issued.
C3_Witness ==
    /\ ~lastCall.contacted /\ ~lastCall.raised /\ nCalls >= 2
    /\ lastCall.scopes = <<"b", "a">>
    /\ \E h \in issued : h.scopes = <<"a", "b">> /\ h.token = lastCall.token

\* C5: when the identity provider's result carries no access token, get_token
\* raises, and the message of the error is "Failed to acquire token: " followed
\* by the result's error_description.
C5_FailureCarriesDescription ==
    (lastCall.contacted /\ "access_token" \notin DOMAIN lastCall.result) =>
        /\ lastCall.raised
        /\ "error_description" \in DOMAIN lastCall.result =>
              lastCall.message =
                  "Failed to acquire token: " \o lastCall.result.error_description

\* A rejected get_token for a non-default scope list, after an earlier success.
C5_Witness ==
    /\ lastCall.raised
    /\ lastCall.result = [error |-> "invalid_client", error_description |-> "bad creds"]
    /\ lastCall.message = "Failed to acquire token: bad creds"
    /\ lastCall.scopes = <<"a", "b">>
    /\ issued # {}
(***************************************************************************)
(* Claims about the diff generator                                         *)
(***************************************************************************)
NoEntries(report) ==
    report.added = <<>> /\ report.removed = <<>> /\ report.modified = <<>>

\* C8: when changelog generation is run again with no export change since
\* the previous run, the latest.json it leaves has empty added, removed and
\* modified sequences.
C8_NoChangeNoEntries ==
    (runs >= 2 /\ sameAsPrevious) => NoEntries(changeLogs["latest.json"])

HasId(file) == file.kind = "json" /\ "id" \in DOMAIN file.doc

\* The entries of a list are, in some order q of the paths, one per path:
\* each of the given change type, of the type of the path's directory, and
\* with the id of the object in that path's manifest.
OnePerPath(entries, paths, files, change_type) ==
    /\ Len(entries) = Cardinality(paths)
    /\ \E q \in Orderings(paths) :
          \A i \in DOMAIN q :
             /\ entries[i].changeType = change_type
             /\ entries[i].objectType = q[i][1]
             /\ HasId(files[q[i]]) => entries[i].objectId = files[q[i]].doc["id"]

\* C9: the paths only in the current snapshot yield exactly one added entry
\* each, carrying the object's id; the paths only in the previous snapshot
\* yield exactly one removed entry each; a path in both snapshots yields
\* neither, and at most one modified entry.
C9_PathSetDifference ==
    fnOut.applied =>
        /\ OnePerPath(fnOut.added, DOMAIN fnCur \ DOMAIN fnPrev, fnCur, "added")
        /\ OnePerPath(fnOut.removed, DOMAIN fnPrev \ DOMAIN fnCur, fnPrev, "removed")
        /\ Len(fnOut.modified) <= Cardinality(DOMAIN fnCur \cap DOMAIN fnPrev)

C9_Witness ==
    /\ fnOut.applied
    /\ DOMAIN fnCur \cap DOMAIN fnPrev # {}
    /\ \E f \in DOMAIN fnCur \ DOMAIN fnPrev : HasId(fnCur[f])
    /\ Len(fnOut.added) = 1
    /\ fnOut.removed = <<>>

Without(doc, key) == [k \in DOMAIN doc \ {key} |-> doc[k]]

DifferOnlyInLastModified(old_file, new_file) ==
    /\ old_file.kind = "json"
    /\ new_file.kind = "json"
    /\ "lastModifiedDateTime" \in DOMAIN old_file.doc \cap DOMAIN new_file.doc
    /\ old_file.doc["lastModifiedDateTime"] # new_file.doc["lastModifiedDateTime"]
    /\ Without(old_file.doc, "lastModifiedDateTime")
          = Without(new_file.doc, "lastModifiedDateTime")

\* C10: for a manifest in both snapshots whose two versions differ only in
\* the value of lastModifiedDateTime, no modified entry is emitted.
C10_LastModifiedIgnored ==
    (fnCmp.applied /\ DifferOnlyInLastModified(fnPrev[fnCmp.path], fnCur[fnCmp.path]))
        => ~fnCmp.result.emitted

C10_Witness ==
    /\ fnCmp.applied
    /\ DifferOnlyInLastModified(fnPrev[fnCmp.path], fnCur[fnCmp.path])
    /\ fnCmp.result = NoEntry

\* C11: after any sequence of changelog runs, latest.json holds the report
\* of the most recent run, and the report of every run is still stored under
\* the timestamped file name that run gave it.
C11_HistoryIsPermanent ==
    runLog # <<>> =>
        /\ changeLogs["latest.json"] = runLog[Len(runLog)].report
        /\ \A i \in DOMAIN runLog : changeLogs[runLog[i].file] = runLog[i].report

(***************************************************************************)
(* Claims about file names                                                 *)
(***************************************************************************)
SameNameOtherId(a, b) == a["displayName"] = b["displayName"] /\ a["id"] # b["id"]

\* C12: two exported objects with the same display name and different ids
\* are written to distinct manifest files, by either exporter: each of the
\* two manifests is in the tree, under its own file name.
C12_SameNameDistinctFiles ==
    \A i, j \in DOMAIN exported :
        SameNameOtherId(exported[i], exported[j]) =>
            \E f1, f2 \in Manifests :
                /\ f1 # f2
                /\ exports[f1].doc["id"] = exported[i]["id"]
                /\ exports[f2].doc["id"] = exported[j]["id"]

C12_Witness ==
    /\ entry # "ApplicationExporter"
    /\ Len(exported) = 2
    /\ SameNameOtherId(exported[1], exported[2])
    /\ Cardinality(Manifests) = 2

(***************************************************************************)
(* Claims about the configuration                                          *)
(***************************************************************************)
MissingVars == {v \in Range(RequiredVars) : env[v] = Unset \/ env[v] = ""}

\* The texts that name exactly the variables of S, in any order.
TextsNaming(S) ==
    {"Missing required environment variables: " \o join(", ", q) : q \in Orderings(S)}

\* C13: Config() fails whenever a required identity variable is unset or
\* empty, with one message that names every missing variable and no other;
\* with all three set it succeeds.
C13_MissingVarsAllNamed ==
    config.state # "none" =>
        IF MissingVars = {}
        THEN config.state = "ok"
        ELSE config.state = "raised" /\ config.message \in TextsNaming(MissingVars)

C13_Witness ==
    /\ config.state = "raised"
    /\ Cardinality(MissingVars) = 2
    /\ \E v \in MissingVars : env[v] = ""
    /\ \E v \in MissingVars : env[v] = Unset

TrueSpellings == {"true", "TRUE", "True"}

\* What a toggle must read as: true exactly for a spelling of "true", the
\* default when the variable is unset.
ToggleMeans(var, default) ==
    IF env[var] = Unset THEN default ELSE env[var] \in TrueSpellings

\* C14: each boolean toggle is true exactly when its value is "true" in any
\* case, false for any other value, and its default when unset: false for
\* beta_enabled, true for pretty_print and include_assignments.
C14_TogglesCaseInsensitiveTrue ==
    config.read =>
        /\ config.beta_enabled = ToggleMeans("GRAPH_API_BETA_ENABLED", FALSE)
        /\ config.pretty_print = ToggleMeans("EXPORT_PRETTY_PRINT", TRUE)
        /\ config.include_assignments = ToggleMeans("EXPORT_INCLUDE_ASSIGNMENTS", TRUE)

C14_Witness ==
    /\ config.read
    /\ env["GRAPH_API_BETA_ENABLED"] = "TRUE"
    /\ config.beta_enabled
    /\ env["EXPORT_PRETTY_PRINT"] = "Yes"
    /\ ~config.pretty_print
    /\ env["EXPORT_INCLUDE_ASSIGNMENTS"] = Unset
    /\ config.include_assignments

(***************************************************************************)
(* Claims about the application export                                     *)
(***************************************************************************)
AppManifests == {f \in Manifests : f[1] = "Applications"}

\* C15: a written application manifest has an iconFile reference only if
\* that icon file was written: after a failed decode or write of the icon
\* the manifest is written without the reference.
C15_IconFileOnlyIfWritten ==
    \A f \in AppManifests :
        "iconFile" \in DOMAIN exports[f].doc =>
            <<"Applications", exports[f].doc["iconFile"].s>> \in DOMAIN exports

\* C16: when the primary GET of an object succeeded and a sub-resource
\* request (detection rules, requirement rules, assignments) answered
\* something other than 200, the object's manifest is still written, unless
\* something other than a response fails (a key missing from the data, the
\* write of the manifest).
C16_SubResourceFailureNonFatal ==
    (/\ lastItem.kind # "none"
     /\ lastItem.detStatus = 200
     /\ lastItem.subStatuses \ {200} # {}) =>
        \/ lastItem.wrote
        \/ lastItem.saveRaised
        \/ lastItem.otherRaised
        \/ lastItem.asgKeyError

\* C17: when the assignments request of an application answers, no group
\* target fails the assignment export, whatever the group lookup does: the
\* written manifest lists every assignment of the response, in its order,
\* and an assignment has a targetGroupName only if the name was resolved.
C17_GroupNameBestEffort ==
    (lastItem.kind = "app" /\ lastItem.asgStatus = 200) =>
        /\ ~lastItem.asgKeyError
        /\ lastItem.wrote =>
              LET out == exports[lastItem.path].doc["assignments"].l
              IN  /\ Len(out) = Len(lastItem.asgValue)
                  /\ \A i \in DOMAIN out :
                        /\ out[i].id = lastItem.asgValue[i].id
                        /\ "targetGroupName" \in DOMAIN out[i]
                              => out[i].targetGroupName.t = "str"

(***************************************************************************)
(* Claims about modified entries                                           *)
(***************************************************************************)
IsScalar(v) == v.t \in {"null", "str", "bool"}

\* Two JSON values are the same once the order of list elements is ignored.
RECURSIVE SameIgnoringOrder(_, _)
SameIgnoringOrder(a, b) ==
    IF a.t # b.t THEN FALSE
    ELSE IF a.t = "dict"
    THEN /\ DOMAIN a.l[1] = DOMAIN b.l[1]
         /\ \A k \in DOMAIN a.l[1] : SameIgnoringOrder(a.l[1][k], b.l[1][k])
    ELSE IF a.t = "list"
    THEN /\ Len(a.l) = Len(b.l)
         /\ \E q \in Orderings(DOMAIN b.l) :
               \A i \in DOMAIN a.l : SameIgnoringOrder(a.l[i], b.l[q[i]])
    ELSE a = b

DocumentsDiffer(old_doc, new_doc) ==
    ~SameIgnoringOrder(JDict(Without(old_doc, "lastModifiedDateTime")),
                       JDict(Without(new_doc, "lastModifiedDateTime")))

\* The scalar value changes between two objects: the name of the field, in
\* the object or in an object nested in it, with its old and its new value.
RECURSIVE ScalarChanges(_, _)
ScalarChanges(d1, d2) ==
    LET both == DOMAIN d1 \cap DOMAIN d2
    IN  {[name |-> k, old |-> d1[k], new |-> d2[k]] :
            k \in {x \in both : IsScalar(d1[x]) /\ IsScalar(d2[x]) /\ d1[x] # d2[x]}}
        \cup UNION {ScalarChanges(d1[k].l[1], d2[k].l[1]) :
                       k \in {x \in both : d1[x].t = "dict" /\ d2[x].t = "dict"}}

\* C18: a manifest in both snapshots gets a modified entry exactly when its
\* two documents differ, list order and lastModifiedDateTime ignored, and
\* the entry's changes hold every scalar value change as an old/new pair
\* under the name of the changed field.
C18_ModifiedEntryListsScalarChanges ==
    (/\ fnCmp.applied
     /\ fnPrev[fnCmp.path].kind = "json"
     /\ fnCur[fnCmp.path].kind = "json") =>
        LET old_doc == Without(fnPrev[fnCmp.path].doc, "lastModifiedDateTime")
            new_doc == Without(fnCur[fnCmp.path].doc, "lastModifiedDateTime")
        IN  /\ fnCmp.result.emitted <=> DocumentsDiffer(old_doc, new_doc)
            /\ fnCmp.result.emitted =>
                  \A c \in ScalarChanges(old_doc, new_doc) :
                     /\ c.name \in DOMAIN fnCmp.result.changes
                     /\ fnCmp.result.changes[c.name] = [old |-> c.old, new |-> c.new]

(***************************************************************************)
(* Claims about unreadable files                                           *)
(***************************************************************************)
Unreadable(file) == file.kind # "json"

\* The entries of a list are, in some order q of the paths, one per path,
\* the unreadable files included: each entry has the given change type and
\* the type of its path's directory; the entry of an unreadable file is
\* named "Error reading file", the entry of a readable one by its document.
NoneDropped(entries, paths, files, change_type) ==
    /\ Len(entries) = Cardinality(paths)
    /\ \E q \in Orderings(paths) :
          \A i \in DOMAIN q :
             /\ entries[i].changeType = change_type
             /\ entries[i].objectType = q[i][1]
             /\ entries[i].displayName =
                   IF Unreadable(files[q[i]]) THEN JStr("Error reading file")
                   ELSE Get(files[q[i]].doc, "displayName", JStr("Unknown"))

\* C19: a file that cannot be read or parsed while the added or removed
\* entries are built still gets its entry, named "Error reading file", with
\* the right change type and object type, and the other files get theirs:
\* there are as many added (removed) entries as paths only in the current
\* (previous) snapshot.
C19_UnreadableFileStillReported ==
    fnOut.applied =>
        /\ NoneDropped(fnOut.added, DOMAIN fnCur \ DOMAIN fnPrev, fnCur, "added")
        /\ NoneDropped(fnOut.removed, DOMAIN fnPrev \ DOMAIN fnCur, fnPrev, "removed")

C19_Witness ==
    /\ fnOut.applied
    /\ fnPrev = NoFiles
    /\ Len(fnOut.added) = 2
    /\ \E f \in DOMAIN fnCur : Unreadable(fnCur[f])
    /\ \E f \in DOMAIN fnCur : ~Unreadable(fnCur[f])
    /\ \E i \in DOMAIN fnOut.added :
          fnOut.added[i].displayName = JStr("Error reading file")

====
